---- MODULE Spec2Model ----
(***************************************************************************)
(* A model of src/src/lib/utils.ts of astro-maplibre-template:             *)
(*   - loadMapLayers: the toggle pass, the registration pass (with the     *)
(*     asynchronous geojson fetches) and the mouse-event wiring;           *)
(*   - transformMixedTagToHTMLObject with its resolveContent helper;       *)
(*   - parseShorthand, parseLegend and renderHTMLObject(s).                *)
(* The map engine (maplibre-gl) is the environment: its source and layer   *)
(* namespaces, its listener table and the popups it displays are state.    *)
(***************************************************************************)
EXTENDS Integers, Sequences, FiniteSets, TLC

(***************************************************************************)
(* Bounds of the model.                                                    *)
(***************************************************************************)
\* loadMapLayers calls made on the one map handle
MaxCalls == 2
\* mouseleave listeners that events may have attached to the map
MaxLeaveListeners == 2

(***************************************************************************)
(* The layer specifications (src/src/types.ts).                            *)
(***************************************************************************)
DataTypes == {"geojson", "raster", "image", "vector"}

EventTypes == {"click", "mousemove", "mouseenter", "mouseleave"}

\* the mouseEvent lists a spec is drawn with (the type of each binding)
MouseEventChoices == {<<>>, <<"click">>, <<"mousemove">>}

\* toggle and visible are optional booleans: the code reads an absent one as
\* false (layer.toggle, layer.visible === true, layer.visible ? :)
MapLayer ==
  [dataType : DataTypes, toggle : BOOLEAN, visible : BOOLEAN,
   mouseEvent : MouseEventChoices]

\* the specs two-spec groups are drawn from: all four data-types, with a click
\* binding, hidden unless the call says otherwise, and with no toggle button
\* (a button only ever touches its own layer)
SiblingLayer ==
  [dataType : DataTypes, toggle : {FALSE}, visible : {FALSE},
   mouseEvent : {<<"click">>}]

\* the specs the two-spec groups with buttons are drawn from: raster specs,
\* with or without a toggle, visible or not, with or without a label
ToggleLayer ==
  {l @@ [dataType |-> "raster", toggle |-> t, visible |-> v, mouseEvent |-> <<>>] :
     l \in {[k \in {} |-> ""], [label |-> "Roads"]}, t \in BOOLEAN, v \in BOOLEAN}

\* the optional fields a layer object can carry besides: a supplied zoom
\* bound may be 0, a supplied paint is an object
UrlChoices == {[k \in {} |-> ""], [url |-> "https://tiles/x"]}

PaintChoices == {[k \in {} |-> ""], [paint |-> [opacity |-> "0.5"]]}

\* the specs drawn with optional fields of each variant present or absent
OptionLayer ==
  {[dataType |-> "raster", toggle |-> FALSE, visible |-> FALSE, mouseEvent |-> <<>>]
     @@ u @@ p @@ s :
       u \in UrlChoices, p \in PaintChoices,
       s \in {[k \in {} |-> 0], [tileSize |-> 512]}}
  \cup
  {[dataType |-> "image", toggle |-> FALSE, visible |-> FALSE, mouseEvent |-> <<>>]
     @@ u @@ p @@ c :
       u \in UrlChoices, p \in PaintChoices,
       c \in {[k \in {} |-> <<>>],
              [coordinates |-> <<<<0, 0>>, <<1, 0>>, <<1, 1>>, <<0, 1>>>>]}}
  \cup
  {[dataType |-> "vector", toggle |-> FALSE, visible |-> FALSE, mouseEvent |-> <<>>]
     @@ ("layer-type" :> "line") @@ u @@ p @@ lo @@ hi @@ sl :
       u \in UrlChoices, p \in PaintChoices,
       lo \in {[k \in {} |-> 0], [minzoom |-> 0], [minzoom |-> 5]},
       hi \in {[k \in {} |-> 0], [maxzoom |-> 0], [maxzoom |-> 14]},
       sl \in {[k \in {} |-> ""], "source-layer" :> "roads"}}
  \cup
  {[dataType |-> "geojson", toggle |-> FALSE, visible |-> FALSE, mouseEvent |-> <<>>]
     @@ ("layer-type" :> "fill") @@ [url |-> "https://data/x.geojson"] @@ p :
       p \in PaintChoices}

\* A group is an ordered collection of specs; the spec at position i has
\* id i (ids are unique per map instance).
LayerGroup ==
  {<<a>> : a \in MapLayer} \cup {<<a, b>> : a, b \in SiblingLayer}
  \cup {<<a, b>> : a, b \in ToggleLayer}
  \cup {<<a>> : a \in OptionLayer}

Ids == {1, 2}

VARIABLES
  layers,          \* the LayerGroup every call is made with
  menu,            \* whether the element <container id>-menu exists
  calls,           \* the visibility argument of each loadMapLayers call so far
  sources,         \* the map's source namespace: id -> "absent" or source type
  mapLayers,       \* the map's layer namespace: id -> "absent" | "visible" | "none"
  addSourceCalls,  \* id -> number of map.addSource calls made for it
  addLayerCalls,   \* id -> number of map.addLayer calls made for it
  sourceOptions,   \* id -> the options its source was added with
  layerOptions,    \* id -> the options, layout apart, its layer was added with
  fetches,         \* the geojson fetches: records [call, id, state]
  menuChildren,    \* the toggle buttons appended to the menu, in order
  listeners,       \* the map.on registrations, in order
  popups,          \* the popups currently added to the map
  tag,             \* the ContentTag given to transformMixedTagToHTMLObject
  event,           \* the event context e given with it
  result,          \* what the call returned, once it has been made
  shorthand,       \* the shorthand object given to parseShorthand, if one is
  parsed,          \* what parseShorthand returned or threw, once called
  html             \* what renderHTMLObject(s) returned, once called

mapVars ==
  <<layers, menu, calls, sources, mapLayers, addSourceCalls, addLayerCalls,
    sourceOptions, layerOptions, fetches, menuChildren, listeners, popups>>

transformVars == <<tag, event, result, shorthand, parsed, html>>

vars == <<mapVars, transformVars>>

(***************************************************************************)
(* loadMapLayers, pass 1: the toggle buttons (utils.ts 58-79).             *)
(***************************************************************************)
\* the className a new button gets: "active" only when layer.visible === true
InitialClassName(layer) == IF layer.visible THEN "active" ELSE ""

\* toggleButton.textContent = layer.label ?? layer.id
TextContent(layer, id) ==
  IF "label" \in DOMAIN layer THEN layer.label ELSE ToString(id)

\* a pass that makes a button for every spec from id i on
ToggleButtonsForAll(grp, i) ==
  IF menu
    THEN [k \in 1..(Len(grp) + 1 - i) |->
            [id |-> i + k - 1, className |-> InitialClassName(grp[i + k - 1]),
             textContent |-> TextContent(grp[i + k - 1], i + k - 1)]]
    ELSE <<>>

RECURSIVE ToggleButtons(_, _)
\* the buttons one call appends to the menu, in the group's order from id i
ToggleButtons(grp, i) ==
  IF i > Len(grp) THEN <<>>
  ELSE (IF grp[i].toggle /\ menu
          THEN <<[id |-> i, className |-> InitialClassName(grp[i]),
                  textContent |-> TextContent(grp[i], i)]>>
          ELSE <<>>)
       \o ToggleButtons(grp, i + 1)

(***************************************************************************)
(* loadMapLayers, pass 2: registration (utils.ts 81-220).  The pass works  *)
(* on a record st of the engine state it reads and writes.                 *)
(***************************************************************************)
\* the default of the parameter: visibility: boolean = false
DefaultVisibility == FALSE

\* a layout.visibility that follows the spec alone
InitialVisibilityOfSpec(visibility, layer) ==
  IF layer.visible THEN "visible" ELSE "none"

\* layout.visibility of a new layer: visibility ? "visible" : layer.visible ? ...
InitialVisibility(visibility, layer) ==
  IF visibility THEN "visible" ELSE IF layer.visible THEN "visible" ELSE "none"

\* a registration pass that never looks the id up
SourceAbsentUnchecked(st, id) == TRUE

\* !map.getSource(layer.id) in the raster, image and vector branches
SourceAbsent(st, id) == st.sources[id] = "absent"

\* a pass that adds the layer without looking the id up
LayerAbsentUnchecked(st, id) == TRUE

\* !map.getLayer(layer.id) in the raster, image and vector branches
LayerAbsent(st, id) == st.mapLayers[id] = "absent"

\* !map.getSource(layer.id), as the fetch-completion callback evaluates it
SourceAbsentInCallback(st, id) == st.sources[id] = "absent"

\* a callback that adds the layer without looking the id up
LayerAbsentInCallbackUnchecked(st, id) == TRUE

\* !map.getLayer(layer.id), as the fetch-completion callback evaluates it
LayerAbsentInCallback(st, id) == st.mapLayers[id] = "absent"

\* the defaults written into the options (utils.ts 143, 197, 198)
DefaultTileSize == 256

DefaultMinzoom == 0

DefaultMaxzoom == 22

\* layer[key] || fallback for a string: absent and "" are falsy
StringOr(layer, key, fallback) ==
  IF key \in DOMAIN layer /\ layer[key] # "" THEN layer[key] ELSE fallback

\* layer[key] || fallback for a number: absent and 0 are falsy
NumberOr(layer, key, fallback) ==
  IF key \in DOMAIN layer /\ layer[key] # 0 THEN layer[key] ELSE fallback

\* layer[key] || fallback for an object or an array: only absent is falsy
ObjectOr(layer, key, fallback) ==
  IF key \in DOMAIN layer THEN layer[key] ELSE fallback

\* layer[key] ?? fallback
Coalesce(layer, key, fallback) ==
  IF key \in DOMAIN layer THEN layer[key] ELSE fallback

\* key: layer[key], which leaves the key undefined when the layer has none
Given(layer, key, as) ==
  IF key \in DOMAIN layer THEN as :> layer[key] ELSE [k \in {} |-> ""]

\* the second argument of map.addSource, the type apart
SourceOptions(layer) ==
  IF layer.dataType = "raster"
    THEN [tiles |-> <<StringOr(layer, "url", "")>>,
          tileSize |-> NumberOr(layer, "tileSize", DefaultTileSize)]
  ELSE IF layer.dataType = "image"
    THEN [url |-> StringOr(layer, "url", ""),
          coordinates |-> ObjectOr(layer, "coordinates", <<>>)]
  ELSE IF layer.dataType = "vector"
    THEN [tiles |-> <<StringOr(layer, "url", "")>>,
          minzoom |-> NumberOr(layer, "minzoom", DefaultMinzoom),
          maxzoom |-> NumberOr(layer, "maxzoom", DefaultMaxzoom)]
  ELSE [data |-> "FeatureCollection"]

\* the argument of map.addLayer, id and layout apart
LayerOptions(layer, id) ==
  [source |-> id, paint |-> ObjectOr(layer, "paint", [k \in {} |-> ""])]
  @@ (IF layer.dataType = "raster" \/ layer.dataType = "image"
        THEN [type |-> "raster"]
        ELSE Given(layer, "layer-type", "type"))
  @@ (IF layer.dataType = "vector"
        THEN "source-layer" :> Coalesce(layer, "source-layer", ToString(id))
        ELSE [k \in {} |-> ""])

\* map.addSource(id, {type, ...options})
AddSource(st, id, type, options) ==
  [st EXCEPT !.sources[id] = type, !.addSourceCalls[id] = @ + 1,
             !.sourceOptions[id] = options]

\* map.addLayer({id, ...options, layout: {visibility}})
AddLayer(st, id, visibility, options) ==
  [st EXCEPT !.mapLayers[id] = visibility, !.addLayerCalls[id] = @ + 1,
             !.layerOptions[id] = options]

\* the raster, image and vector branches: both registrations are made at once
RegisterNow(st, layer, id, visibility) ==
  LET s1 == IF SourceAbsent(st, id)
              THEN AddSource(st, id, layer.dataType, SourceOptions(layer))
              ELSE st
  IN IF LayerAbsent(s1, id)
       THEN AddLayer(s1, id, InitialVisibility(visibility, layer),
                     LayerOptions(layer, id))
       ELSE s1

\* the geojson branch: fetch(layer.url) is started and the pass goes on
StartFetch(st, id, call) ==
  [st EXCEPT !.fetches = @ \cup {[call |-> call, id |-> id, state |-> "pending"]}]

RECURSIVE WireBindings(_, _, _, _, _)
\* layer.mouseEvent.forEach: one map.on(event.type, layer.id, handler) per
\* binding; every handler of this spec and call closes over the one popup
WireBindings(st, bindings, k, id, call) ==
  IF k > Len(bindings) THEN st
  ELSE WireBindings(
         [st EXCEPT !.listeners =
            Append(@, [type |-> bindings[k], id |-> id, kind |-> "show",
                       popup |-> <<call, id>>, binding |-> k])],
         bindings, k + 1, id, call)

\* a pass that registers a geojson spec at once, besides starting its fetch
RegisterLayerEager(st, layer, id, call, visibility) ==
  LET reg == IF layer.dataType = "geojson"
               THEN RegisterNow(StartFetch(st, id, call), layer, id, visibility)
               ELSE RegisterNow(st, layer, id, visibility)
  IN WireBindings(reg, layer.mouseEvent, 1, id, call)

\* a pass that attaches the handlers only when the spec's layer is on the map
RegisterLayerWiringGuarded(st, layer, id, call, visibility) ==
  LET reg == IF layer.dataType = "geojson"
               THEN StartFetch(st, id, call)
               ELSE RegisterNow(st, layer, id, visibility)
  IN IF reg.mapLayers[id] # "absent" /\ st.mapLayers[id] = "absent"
       THEN WireBindings(reg, layer.mouseEvent, 1, id, call)
       ELSE reg

\* one iteration of the second forEach: dispatch on data-type, then the wiring
RegisterLayer(st, layer, id, call, visibility) ==
  LET reg == IF layer.dataType = "geojson"
               THEN StartFetch(st, id, call)
               ELSE RegisterNow(st, layer, id, visibility)
  IN WireBindings(reg, layer.mouseEvent, 1, id, call)

RECURSIVE RegisterFromUntilFetch(_, _, _, _, _)
\* a pass that a geojson spec ends: the specs after it are not processed
RegisterFromUntilFetch(st, grp, i, call, visibility) ==
  IF i > Len(grp) THEN st
  ELSE IF grp[i].dataType = "geojson"
         THEN RegisterLayer(st, grp[i], i, call, visibility)
         ELSE RegisterFromUntilFetch(RegisterLayer(st, grp[i], i, call, visibility),
                                     grp, i + 1, call, visibility)

RECURSIVE RegisterFrom(_, _, _, _, _)
\* Object.values(layers).forEach: every spec of the group, in order
RegisterFrom(st, grp, i, call, visibility) ==
  IF i > Len(grp) THEN st
  ELSE RegisterFrom(RegisterLayer(st, grp[i], i, call, visibility),
                    grp, i + 1, call, visibility)

EngineState ==
  [sources |-> sources, mapLayers |-> mapLayers,
   addSourceCalls |-> addSourceCalls, addLayerCalls |-> addLayerCalls,
   sourceOptions |-> sourceOptions, layerOptions |-> layerOptions,
   fetches |-> fetches, listeners |-> listeners]

\* loadMapLayers(map, layers, visibility): both passes, as one synchronous step
LoadMapLayers(visibility) ==
  /\ Len(calls) < MaxCalls
  /\ LET call == Len(calls) + 1
         st == RegisterFrom(EngineState, layers, 1, call, visibility)
     IN /\ calls' = Append(calls, visibility)
        /\ menuChildren' = menuChildren \o ToggleButtons(layers, 1)
        /\ sources' = st.sources
        /\ mapLayers' = st.mapLayers
        /\ addSourceCalls' = st.addSourceCalls
        /\ addLayerCalls' = st.addLayerCalls
        /\ sourceOptions' = st.sourceOptions
        /\ layerOptions' = st.layerOptions
        /\ fetches' = st.fetches
        /\ listeners' = st.listeners
  /\ UNCHANGED <<layers, menu, popups, transformVars>>

(***************************************************************************)
(* The geojson fetch of one spec and call (utils.ts 83-136).               *)
(***************************************************************************)
\* the second .then callback: both guards and both registrations in one step
FetchCallback(st, layer, id, visibility) ==
  LET s1 == IF SourceAbsentInCallback(st, id)
              THEN AddSource(st, id, "geojson", SourceOptions(layer))
              ELSE st
  IN IF LayerAbsentInCallback(s1, id)
       THEN AddLayer(s1, id, InitialVisibility(visibility, layer),
                     LayerOptions(layer, id))
       ELSE s1

Settle(f, state) == (fetches \ {f}) \cup {[f EXCEPT !.state = state]}

\* the fetch resolves with a FeatureCollection and the callback runs
FetchFulfilled(f) ==
  /\ f \in fetches /\ f.state = "pending"
  /\ LET st == FetchCallback(EngineState, layers[f.id], f.id, calls[f.call])
     IN /\ sources' = st.sources
        /\ mapLayers' = st.mapLayers
        /\ addSourceCalls' = st.addSourceCalls
        /\ addLayerCalls' = st.addLayerCalls
        /\ sourceOptions' = st.sourceOptions
        /\ layerOptions' = st.layerOptions
  /\ fetches' = Settle(f, "fulfilled")
  /\ UNCHANGED <<layers, menu, calls, menuChildren, listeners, popups, transformVars>>

\* the request is rejected, response.json() rejects, or the body has no
\* features array: the promise chain ends rejected before line 111
FetchRejected(f) ==
  /\ f \in fetches /\ f.state = "pending"
  /\ fetches' = Settle(f, "rejected")
  /\ UNCHANGED <<layers, menu, calls, sources, mapLayers, addSourceCalls,
                 addLayerCalls, sourceOptions, layerOptions, menuChildren,
                 listeners, popups, transformVars>>

(***************************************************************************)
(* toggleButton.onclick (utils.ts 66-74).                                  *)
(***************************************************************************)
\* map.setLayoutProperty(id, "visibility", v) on the layer namespace ls: a
\* layer that is not registered has no layout property to set
SetVisibility(ls, id, v) ==
  IF ls[id] = "absent" THEN ls ELSE [ls EXCEPT ![id] = v]

\* the layer namespace after the handler of a button of layer id has run
LayersAfterClick(ls, id) ==
  IF ls[id] = "visible"
    THEN SetVisibility(ls, id, "none")
    ELSE SetVisibility(ls, id, "visible")

\* the className the handler leaves on its button
ClassNameAfterClick(ls, id) == IF ls[id] = "visible" THEN "" ELSE "active"

ToggleClick(k) ==
  /\ k \in 1..Len(menuChildren)
  /\ LET id == menuChildren[k].id
     IN /\ mapLayers' = LayersAfterClick(mapLayers, id)
        /\ menuChildren' =
             [menuChildren EXCEPT ![k].className = ClassNameAfterClick(mapLayers, id)]
  /\ UNCHANGED <<layers, menu, calls, sources, addSourceCalls, addLayerCalls,
                 sourceOptions, layerOptions, fetches, listeners, popups,
                 transformVars>>

(***************************************************************************)
(* The content model (src/src/types.ts ContentTag) and                     *)
(* transformMixedTagToHTMLObject (utils.ts 364-442).                       *)
(*                                                                         *)
(* A JavaScript object is a function from the keys it has to their values, *)
(* so that "the key is absent" (undefined) and "the key holds the empty    *)
(* string" are different inputs, as they are for the code's truthiness     *)
(* tests.                                                                  *)
(***************************************************************************)
\* items of one tag's sequence
MaxItems == 2

\* the object with no key
EmptyObject == [k \in {} |-> ""]

TagNames == {"a", "img", "iframe"}

\* a ContentItem record: any of str, property, else, alone or with the
\* attribute keys of a link (class, href) or of an image (src, alt)
ItemObjects ==
  {s @@ p @@ f @@ a :
     s \in {EmptyObject, [str |-> ""], [str |-> "click here"]},
     p \in {EmptyObject, [property |-> "name"]},
     f \in {EmptyObject, [else |-> "Unknown"]},
     a \in {EmptyObject,
            [class |-> <<"link">>, href |-> "https://x"],
            [src |-> "/a.png", alt |-> "A"]}}

\* a ContentItem that is a raw string: reading any key of it gives undefined
RawString == [raw |-> "text"]

Items == ItemObjects \cup {RawString}

\* tag[tagName] is an array of items, or (isArray = FALSE) a plain string
ContentTags ==
  {[tagName |-> n, isArray |-> TRUE, items |-> its] :
     n \in TagNames, its \in UNION {[1..len -> Items] : len \in 0..MaxItems}}
  \cup {[tagName |-> n, isArray |-> FALSE, items |-> <<>>] : n \in TagNames}

\* the event contexts: no event, an event with no feature, and an event whose
\* first feature has the properties {}, {name: ""} or {name: "Lake Park"}
NoEvent == [given |-> FALSE, features |-> <<>>]

Events ==
  {NoEvent, [given |-> TRUE, features |-> <<>>]}
  \cup {[given |-> TRUE, features |-> <<[properties |-> ps]>>] :
          ps \in {EmptyObject, [name |-> ""], [name |-> "Lake Park"]}}

\* typeof child === "object"
IsObject(item) == "raw" \notin DOMAIN item

\* a string-valued key read in a boolean context: absent and "" are falsy
Truthy(item, key) == key \in DOMAIN item /\ item[key] # ""

\* item[key] || ""
OrEmpty(item, key) == IF Truthy(item, key) THEN item[key] ELSE ""

\* e?.features?.[0]?.properties
FeatureProperties(e) == e.given /\ Len(e.features) > 0

\* resolveContent (utils.ts 383-395)
ResolveContent(contentBlock, e) ==
  IF Truthy(contentBlock, "str") THEN contentBlock.str
  ELSE IF Truthy(contentBlock, "property") /\ FeatureProperties(e)
    THEN IF Truthy(e.features[1].properties, contentBlock.property)
           THEN e.features[1].properties[contentBlock.property]
           ELSE OrEmpty(contentBlock, "else")
    ELSE OrEmpty(contentBlock, "else")

\* tagContent[0]?.class || []
ClassOf(item) == IF "class" \in DOMAIN item THEN item.class ELSE <<>>

\* tagContent[0]?.href ? [{ href: tagContent[0].href }] : []
HrefProps(item) == IF Truthy(item, "href") THEN <<[href |-> item.href]>> ELSE <<>>

\* an img/iframe leaf that carries the source only
ImagePropsNoAlt(item) == <<[src |-> OrEmpty(item, "src")]>>

\* props: [{ src: tagContent[0].src || "" }, { alt: tagContent[0].alt || "" }]
ImageProps(item) ==
  <<[src |-> OrEmpty(item, "src")], [alt |-> OrEmpty(item, "alt")]>>

\* what reading a key of tagContent[0] throws when the array is empty
TypeError == [error |-> "TypeError"]

\* the branches of a one-item array: the img/iframe leaf and the default leaf
TransformSingle(tagName, item, e) ==
  IF tagName = "img" \/ tagName = "iframe"
    THEN [tag |-> tagName, class |-> ClassOf(item), props |-> ImageProps(item),
          content |-> ""]
    ELSE [tag |-> tagName, class |-> ClassOf(item),
          content |-> ResolveContent(item, e), children |-> <<>>]

\* one entry of tagContent.map in the composite branch: an object goes back
\* through the function as the one-item array { [tagName]: [child] }
TransformChild(tagName, child, e) ==
  IF IsObject(child)
    THEN TransformSingle(tagName, child, e)
    ELSE [tag |-> "span", content |-> ResolveContent(child, e)]

\* transformMixedTagToHTMLObject(tag, e)
TransformMixedTagToHTMLObject(t, e) ==
  IF ~t.isArray
    THEN [tag |-> t.tagName, content |-> "", class |-> <<>>, children |-> <<>>,
          props |-> <<>>]
  ELSE IF Len(t.items) > 1
    THEN [tag |-> t.tagName,
          class |-> ClassOf(t.items[1]),
          props |-> HrefProps(t.items[1]),
          children |-> [k \in 1..Len(t.items) |->
                          TransformChild(t.tagName, t.items[k], e)]]
  ELSE IF Len(t.items) = 0
    THEN TypeError
  ELSE TransformSingle(t.tagName, t.items[1], e)

\* one call of the transformer on the input drawn
Transform ==
  /\ ~shorthand.given
  /\ result = [status |-> "pending"]
  /\ LET r == TransformMixedTagToHTMLObject(tag, event)
     IN result' = IF r = TypeError
                    THEN [status |-> "threw"]
                    ELSE [status |-> "returned", node |-> r]
  /\ UNCHANGED <<tag, event, shorthand, parsed, html, mapVars>>

(***************************************************************************)
(* The legend shorthand (src/src/types.ts 196-204), parseLegend and        *)
(* parseShorthand (utils.ts 451-497).                                      *)
(***************************************************************************)
\* entries of one legend
MaxLegendItems == 2

LegendItems == [color : {"#f00", "#00f"}, label : {"Fire", "Ice"}]

\* legend.items is an array of entries, or (isArray = FALSE) some other value
LegendItemsChoices ==
  {EmptyObject, [items |-> [isArray |-> FALSE, elems |-> <<>>]]}
  \cup {[items |-> [isArray |-> TRUE, elems |-> its]] :
          its \in UNION {[1..len -> LegendItems] : len \in 0..MaxLegendItems}}

Legends ==
  {t @@ i : t \in {EmptyObject, [title |-> ""], [title |-> "Key"]},
            i \in LegendItemsChoices}

\* the shorthand objects: with no key, with another key, with a legend
Shorthands ==
  {EmptyObject, [scale |-> "1:1000"]} \cup {[legend |-> l] : l \in Legends}

NoShorthand == [given |-> FALSE, data |-> EmptyObject]

\* throw new Error(message)
Thrown(message) == [error |-> message]

\* an entry whose swatch has one color whatever the item's
LegendEntryOneColor(item) ==
  [tag |-> "li",
   children |-> <<[tag |-> "span", class |-> <<"legend-color">>,
                   style |-> <<<<"background-color", "#000">>>>],
                  [tag |-> "span", class |-> <<"legend-label">>,
                   content |-> item.label]>>]

\* one entry of legend.items.map (utils.ts 468-483)
LegendEntry(item) ==
  [tag |-> "li",
   children |-> <<[tag |-> "span", class |-> <<"legend-color">>,
                   style |-> <<<<"background-color", item.color>>>>],
                  [tag |-> "span", class |-> <<"legend-label">>,
                   content |-> item.label]>>]

\* parseLegend(legend), for a legend that is an object
ParseLegend(legend) ==
  IF "items" \notin DOMAIN legend \/ ~legend.items.isArray
    THEN Thrown("Invalid legend format: must include 'items'.")
    ELSE [tag |-> "div", class |-> <<"menu-item">>,
          children |->
            (IF Truthy(legend, "title")
               THEN <<[tag |-> "h3", content |-> legend.title]>>
               ELSE <<>>)
            \o <<[tag |-> "ul",
                  children |-> [k \in 1..Len(legend.items.elems) |->
                                  LegendEntry(legend.items.elems[k])]]>>]

\* a parser that answers an unsupported shorthand with no node at all
ParseShorthandLenient(data) ==
  IF "legend" \in DOMAIN data
    THEN LET node == ParseLegend(data.legend)
         IN IF "error" \in DOMAIN node THEN node ELSE [nodes |-> <<node>>]
    ELSE [nodes |-> <<>>]

\* parseShorthand(data): the one-node array, or the error thrown
ParseShorthand(data) ==
  IF "legend" \in DOMAIN data
    THEN LET node == ParseLegend(data.legend)
         IN IF "error" \in DOMAIN node THEN node ELSE [nodes |-> <<node>>]
    ELSE Thrown("Unsupported shorthand format")

\* one call of parseShorthand on the shorthand drawn
Parse ==
  /\ shorthand.given
  /\ parsed = [status |-> "pending"]
  /\ LET r == ParseShorthand(shorthand.data)
     IN parsed' = IF "error" \in DOMAIN r
                    THEN [status |-> "threw", error |-> r.error]
                    ELSE [status |-> "returned", nodes |-> r.nodes]
  /\ UNCHANGED <<tag, event, result, shorthand, html, mapVars>>

(***************************************************************************)
(* renderHTMLObject and renderHTMLObjects (utils.ts 499-525).  The string  *)
(* returned is kept as the sequence of its non-empty pieces: the opening   *)
(* "<tag", the rest of the opening tag up to ">", the content, the pieces  *)
(* of each child, and the closing "</tag>".                                *)
(***************************************************************************)
\* a piece of the template: the empty string adds nothing
Piece(s) == IF s = "" THEN <<>> ELSE <<s>>

RECURSIVE Join(_, _)
\* strings.join(separator)
Join(strings, separator) ==
  IF Len(strings) = 0 THEN ""
  ELSE IF Len(strings) = 1 THEN strings[1]
  ELSE strings[1] \o separator \o Join(Tail(strings), separator)

RECURSIVE Flatten(_)
\* pieces.join("")
Flatten(pieces) ==
  IF Len(pieces) = 0 THEN <<>> ELSE pieces[1] \o Flatten(Tail(pieces))

\* data[key] || []
OrEmptyList(data, key) == IF key \in DOMAIN data THEN data[key] ELSE <<>>

\* clsx(data.class || []): the truthy class names, separated by a space
Clsx(data) == Join(SelectSeq(OrEmptyList(data, "class"), LAMBDA c : c # ""), " ")

\* `${Object.keys(value)}=${Object.values(value)}` of a one-key object
PropText(value) == LET k == CHOOSE k \in DOMAIN value : TRUE IN k \o "=" \o value[k]

Props(data) ==
  LET props == OrEmptyList(data, "props")
  IN Join([k \in 1..Len(props) |-> PropText(props[k])], " ")

IdAttribute(data) == IF Truthy(data, "id") THEN "id=\"" \o data.id \o "\"" ELSE ""

KeyAttribute(data) == IF Truthy(data, "key") THEN "key=\"" \o data.key \o "\"" ELSE ""

ClassList(data) == IF Clsx(data) # "" THEN "class=\"" \o Clsx(data) \o "\"" ELSE ""

\* data.style as its entries [key, value], in insertion order
StyleList(data) ==
  IF "style" \in DOMAIN data
    THEN "style=\""
         \o Join([k \in 1..Len(data.style) |->
                    data.style[k][1] \o ": " \o data.style[k][2]], ";")
         \o "\""
    ELSE ""

\* what follows "<tag" in the opening tag
Attributes(data) ==
  " " \o ClassList(data) \o " " \o StyleList(data) \o " " \o IdAttribute(data)
  \o " " \o KeyAttribute(data) \o " " \o Props(data) \o ">"

\* a renderer that writes the element and its content, not its children
RenderHTMLObjectChildless(data) ==
  IF ~Truthy(data, "tag") THEN <<>>
  ELSE <<"<" \o data.tag, Attributes(data)>>
       \o Piece(OrEmpty(data, "content"))
       \o <<"</" \o data.tag \o ">">>

RECURSIVE RenderHTMLObject(_)
\* renderHTMLObject(data)
RenderHTMLObject(data) ==
  IF ~Truthy(data, "tag") THEN <<>>
  ELSE LET children == OrEmptyList(data, "children")
       IN <<"<" \o data.tag, Attributes(data)>>
          \o Piece(OrEmpty(data, "content"))
          \o Flatten([k \in 1..Len(children) |-> RenderHTMLObject(children[k])])
          \o <<"</" \o data.tag \o ">">>

\* renderHTMLObjects(data)
RenderHTMLObjects(data) ==
  Flatten([k \in 1..Len(data) |-> RenderHTMLObject(data[k])])

\* the node or nodes returned are rendered
Render ==
  /\ html = [status |-> "pending"]
  /\ \/ /\ result.status = "returned"
        /\ html' = [status |-> "returned", out |-> RenderHTMLObject(result.node)]
     \/ /\ parsed.status = "returned"
        /\ html' = [status |-> "returned", out |-> RenderHTMLObjects(parsed.nodes)]
  /\ UNCHANGED <<tag, event, result, shorthand, parsed, mapVars>>

(***************************************************************************)
(* The handlers of utils.ts 226-246, run when the map fires an event on a  *)
(* layer.                                                                  *)
(***************************************************************************)
\* entries of one binding's content
MaxContent == 2

\* the entries bindings are drawn with: a link that interpolates a feature
\* property, an image, a tag with an empty item sequence, and a plain string
\* (which is not a tag map)
ContentEntries ==
  {[tagName |-> "a", isArray |-> TRUE,
    items |-> <<[property |-> "name", else |-> "Unknown"]>>],
   [tagName |-> "img", isArray |-> TRUE, items |-> <<[src |-> "/a.png", alt |-> "A"]>>],
   [tagName |-> "a", isArray |-> TRUE, items |-> <<>>],
   RawString}

BindingContents == UNION {[1..len -> ContentEntries] : len \in 0..MaxContent}

\* event.content of binding k of a spec; a spec drawn without content has
\* bindings whose content is the empty list
ContentOf(layer, k) ==
  IF "content" \in DOMAIN layer THEN layer.content[k] ELSE <<>>

\* the events the map hands to a handler: coordinates, and the features
\* under the pointer
MouseEvents ==
  {[given |-> TRUE, lngLat |-> ll, features |-> fs] :
     ll \in {<<0, 0>>, <<10, 20>>},
     fs \in {<<>>, <<[properties |-> [name |-> "Lake Park"]]>>}}

\* the one event of the runs that do not look into the popup
BareEvent == [given |-> TRUE, lngLat |-> <<0, 0>>, features |-> <<>>]

\* isContentTag(data): an object that is not an array
IsContentTag(entry) == "raw" \notin DOMAIN entry

\* some content.map callback throws: the handler ends there, before the
\* popup is touched
HandlerThrows(content, e) ==
  \E k \in 1..Len(content) :
    IsContentTag(content[k]) /\ TransformMixedTagToHTMLObject(content[k], e) = TypeError

\* popupContent: event.content.map(...).join(""), as rendered pieces
PopupContent(content, e) ==
  Flatten([k \in 1..Len(content) |->
             IF IsContentTag(content[k])
               THEN RenderHTMLObject(TransformMixedTagToHTMLObject(content[k], e))
               ELSE <<>>])

\* handlers that make a popup of their own for every event
ShowPopupAnother(ps, popup, lngLat, content) ==
  ps \cup {[popup |-> popup, lngLat |-> lngLat, html |-> content]}

\* popup.setLngLat(e.lngLat).setHTML(popupContent).addTo(map)
ShowPopup(ps, popup, lngLat, content) ==
  {p \in ps : p.popup # popup}
  \cup {[popup |-> popup, lngLat |-> lngLat, html |-> content]}

\* handlers whose mouseleave handler leaves the popup where it is
HandlerPopupsKept(ps, h, e) ==
  IF h.kind = "show" /\ ~HandlerThrows(ContentOf(layers[h.id], h.binding), e)
    THEN ShowPopup(ps, h.popup, e.lngLat,
                   PopupContent(ContentOf(layers[h.id], h.binding), e))
    ELSE ps

\* the popup part of one handler: a binding's handler shows the popup, unless
\* building its content throws; the mouseleave handler of line 242 removes it
HandlerPopups(ps, h, e) ==
  IF h.kind = "show"
    THEN IF HandlerThrows(ContentOf(layers[h.id], h.binding), e)
           THEN ps
           ELSE ShowPopup(ps, h.popup, e.lngLat,
                          PopupContent(ContentOf(layers[h.id], h.binding), e))
    ELSE {p \in ps : p.popup # h.popup}

\* the map.on part of one handler: the handler of a mousemove binding
\* registers a mouseleave handler that removes the popup
HandlerListeners(ls, h, e) ==
  IF /\ h.kind = "show" /\ h.type = "mousemove"
     /\ ~HandlerThrows(ContentOf(layers[h.id], h.binding), e)
    THEN Append(ls, [type |-> "mouseleave", id |-> h.id, kind |-> "remove",
                     popup |-> h.popup])
    ELSE ls

RECURSIVE PopupsAfterEvent(_, _, _, _, _, _)
\* the engine calls the listeners registered when the event fires, in
\* registration order; one registered while it fires is not called
PopupsAfterEvent(ps, hs, k, type, id, e) ==
  IF k > Len(hs) THEN ps
  ELSE PopupsAfterEvent(
         IF hs[k].type = type /\ hs[k].id = id THEN HandlerPopups(ps, hs[k], e) ELSE ps,
         hs, k + 1, type, id, e)

RECURSIVE ListenersAfterEvent(_, _, _, _, _, _)
ListenersAfterEvent(ls, hs, k, type, id, e) ==
  IF k > Len(hs) THEN ls
  ELSE ListenersAfterEvent(
         IF hs[k].type = type /\ hs[k].id = id THEN HandlerListeners(ls, hs[k], e) ELSE ls,
         hs, k + 1, type, id, e)

\* the listeners that events, not loadMapLayers, attached
LeaveListeners(ls) == {k \in 1..Len(ls) : ls[k].kind = "remove"}

\* the map fires an event of the type on the layer: every handler runs to
\* completion within the step
FireEvent(type, id, e) ==
  /\ id \in DOMAIN layers
  /\ mapLayers[id] # "absent"
  /\ \E k \in 1..Len(listeners) : listeners[k].type = type /\ listeners[k].id = id
  /\ listeners' = ListenersAfterEvent(listeners, listeners, 1, type, id, e)
  /\ Cardinality(LeaveListeners(listeners')) <= MaxLeaveListeners
  /\ popups' = PopupsAfterEvent(popups, listeners, 1, type, id, e)
  /\ UNCHANGED <<layers, menu, calls, sources, mapLayers, addSourceCalls,
                 addLayerCalls, sourceOptions, layerOptions, fetches,
                 menuChildren, transformVars>>

\* the transformer's variables while only the materializer runs
IdleTransform ==
  /\ tag = [tagName |-> "a", isArray |-> FALSE, items |-> <<>>]
  /\ event = NoEvent
  /\ result = [status |-> "pending"]
  /\ shorthand = NoShorthand
  /\ parsed = [status |-> "pending"]
  /\ html = [status |-> "pending"]

\* the materializer's variables while only the transformer runs
IdleMap ==
  /\ layers = <<>>
  /\ menu = FALSE
  /\ calls = <<>>
  /\ sources = [id \in Ids |-> "absent"]
  /\ mapLayers = [id \in Ids |-> "absent"]
  /\ addSourceCalls = [id \in Ids |-> 0]
  /\ addLayerCalls = [id \in Ids |-> 0]
  /\ sourceOptions = [id \in Ids |-> [k \in {} |-> ""]]
  /\ layerOptions = [id \in Ids |-> [k \in {} |-> ""]]
  /\ fetches = {}
  /\ menuChildren = <<>>
  /\ listeners = <<>>
  /\ popups = {}

(***************************************************************************)
(* The specification of the layer materializer.                            *)
(***************************************************************************)
Init ==
  /\ layers \in LayerGroup
  /\ menu \in BOOLEAN
  /\ calls = <<>>
  /\ sources = [id \in Ids |-> "absent"]
  /\ mapLayers = [id \in Ids |-> "absent"]
  /\ addSourceCalls = [id \in Ids |-> 0]
  /\ addLayerCalls = [id \in Ids |-> 0]
  /\ sourceOptions = [id \in Ids |-> [k \in {} |-> ""]]
  /\ layerOptions = [id \in Ids |-> [k \in {} |-> ""]]
  /\ fetches = {}
  /\ menuChildren = <<>>
  /\ listeners = <<>>
  /\ popups = {}
  /\ IdleTransform

Next ==
  \/ \E visibility \in BOOLEAN : LoadMapLayers(visibility)
  \/ LoadMapLayers(DefaultVisibility)
  \/ \E f \in fetches : FetchFulfilled(f)
  \/ \E f \in fetches : FetchRejected(f)
  \/ \E k \in 1..Len(menuChildren) : ToggleClick(k)
  \/ \E type \in EventTypes, id \in Ids : FireEvent(type, id, BareEvent)

Spec == Init /\ [][Next]_vars

(***************************************************************************)
(* The specification of the popups: one spec with one binding, whose       *)
(* content is drawn, on a map that fires events with different coordinates *)
(* and features.                                                           *)
(***************************************************************************)
PopupLayer ==
  {[dataType |-> "raster", toggle |-> FALSE, visible |-> TRUE,
    mouseEvent |-> <<type>>, content |-> <<content>>] :
     type \in {"click", "mousemove"}, content \in BindingContents}

InitPopup ==
  /\ layers \in {<<a>> : a \in PopupLayer}
  /\ menu = TRUE
  /\ calls = <<>>
  /\ sources = [id \in Ids |-> "absent"]
  /\ mapLayers = [id \in Ids |-> "absent"]
  /\ addSourceCalls = [id \in Ids |-> 0]
  /\ addLayerCalls = [id \in Ids |-> 0]
  /\ sourceOptions = [id \in Ids |-> [k \in {} |-> ""]]
  /\ layerOptions = [id \in Ids |-> [k \in {} |-> ""]]
  /\ fetches = {}
  /\ menuChildren = <<>>
  /\ listeners = <<>>
  /\ popups = {}
  /\ IdleTransform

NextPopup ==
  \/ \E visibility \in BOOLEAN : LoadMapLayers(visibility)
  \/ \E type \in EventTypes, id \in Ids, e \in MouseEvents : FireEvent(type, id, e)

SpecPopup == InitPopup /\ [][NextPopup]_vars

(***************************************************************************)
(* The specification of the popup of a spec with two bindings, of          *)
(* different types and each with one content entry.                        *)
(***************************************************************************)
\* the type lists of the specs with two bindings
BindingTypePairs ==
  {<<"click", "mousemove">>, <<"mousemove", "mouseleave">>,
   <<"mouseenter", "click">>, <<"mouseenter", "mouseleave">>}

SharedPopupLayer ==
  {[dataType |-> "raster", toggle |-> FALSE, visible |-> TRUE,
    mouseEvent |-> types, content |-> <<<<c1>>, <<c2>>>>] :
     types \in BindingTypePairs, c1 \in ContentEntries, c2 \in ContentEntries}

InitSharedPopup ==
  /\ layers \in {<<a>> : a \in SharedPopupLayer}
  /\ menu = TRUE
  /\ calls = <<>>
  /\ sources = [id \in Ids |-> "absent"]
  /\ mapLayers = [id \in Ids |-> "absent"]
  /\ addSourceCalls = [id \in Ids |-> 0]
  /\ addLayerCalls = [id \in Ids |-> 0]
  /\ sourceOptions = [id \in Ids |-> [k \in {} |-> ""]]
  /\ layerOptions = [id \in Ids |-> [k \in {} |-> ""]]
  /\ fetches = {}
  /\ menuChildren = <<>>
  /\ listeners = <<>>
  /\ popups = {}
  /\ IdleTransform

NextSharedPopup ==
  \/ LoadMapLayers(DefaultVisibility)
  \/ \E type \in EventTypes, id \in Ids, e \in MouseEvents : FireEvent(type, id, e)

SpecSharedPopup == InitSharedPopup /\ [][NextSharedPopup]_vars

(***************************************************************************)
(* The specification of the tree transformer: an input is drawn, and the   *)
(* function is applied to it.                                              *)
(***************************************************************************)
InitTransform ==
  /\ IdleMap
  /\ tag \in ContentTags
  /\ event \in Events
  /\ result = [status |-> "pending"]
  /\ shorthand = NoShorthand
  /\ parsed = [status |-> "pending"]
  /\ html = [status |-> "pending"]

NextTransform == Transform

SpecTransform == InitTransform /\ [][NextTransform]_vars

(***************************************************************************)
(* The specification of the renderer: a content tag with an event context, *)
(* or a shorthand, is drawn; the tag is transformed or the shorthand       *)
(* parsed, and what comes back is rendered.                                *)
(***************************************************************************)
\* the items of the content tags that are rendered: objects with or without
\* a string, a property and link or image attributes, and the raw string
RenderItems ==
  {i \in Items : "else" \notin DOMAIN i /\ ("str" \in DOMAIN i => i.str # "")}

RenderContentTags ==
  {t \in ContentTags : \A k \in 1..Len(t.items) : t.items[k] \in RenderItems}

InitRender ==
  /\ IdleMap
  /\ result = [status |-> "pending"]
  /\ parsed = [status |-> "pending"]
  /\ html = [status |-> "pending"]
  /\ \/ /\ tag \in RenderContentTags
        /\ event \in Events
        /\ shorthand = NoShorthand
     \/ /\ tag = [tagName |-> "a", isArray |-> FALSE, items |-> <<>>]
        /\ event = NoEvent
        /\ shorthand \in {[given |-> TRUE, data |-> d] : d \in Shorthands}

NextRender == Transform \/ Parse \/ Render

SpecRender == InitRender /\ [][NextRender]_vars

(***************************************************************************)
(* Properties of the layer materializer, checked under Spec.               *)
(***************************************************************************)
FetchesOf(id) == {f \in fetches : f.id = id}

Registered(id) == sources[id] # "absent" /\ mapLayers[id] # "absent"

\* every fetch started so far has run its callback
AllSettledFulfilled == \A f \in fetches : f.state = "fulfilled"

\* C1: after two (or more) loadMapLayers calls with the same group, once every
\* fetch callback has run, each spec id has exactly one source (of the spec's
\* data-type) and one layer, for every data-type; and at no time has addSource
\* or addLayer been called a second time for an id.
C1_IdempotentRegistration ==
  /\ \A id \in Ids : addSourceCalls[id] <= 1 /\ addLayerCalls[id] <= 1
  /\ (Len(calls) >= 2 /\ AllSettledFulfilled) =>
       \A id \in DOMAIN layers :
         /\ sources[id] = layers[id].dataType
         /\ mapLayers[id] # "absent"
         /\ addSourceCalls[id] = 1
         /\ addLayerCalls[id] = 1

\* two calls made, both fetches of a geojson spec done, beside a raster spec
C1_Witness ==
  /\ Len(calls) = 2
  /\ Len(layers) = 2
  /\ layers[1].dataType = "geojson" /\ layers[2].dataType = "raster"
  /\ Cardinality(FetchesOf(1)) = 2
  /\ AllSettledFulfilled
  /\ Registered(1) /\ Registered(2)

\* C2: every toggle button of a registered layer has class "active" exactly
\* when the layer's layout visibility is "visible".  (Stated for registered
\* layers only: a layer that is not registered yet has no visibility.)
C2_ToggleAgreesWithLayer ==
  \A k \in 1..Len(menuChildren) :
    LET id == menuChildren[k].id
    IN mapLayers[id] # "absent" =>
         (menuChildren[k].className = "active" <=> mapLayers[id] = "visible")

\* C3: for a geojson spec every step that calls addSource (addLayer) finds the
\* source (layer) absent in the state it starts from and calls it once: the
\* existence check and the registration are one step, whatever ran between
\* the loadMapLayers call and the callback.
C3_CheckedAtCallbackTime ==
  [][\A id \in DOMAIN layers :
       layers[id].dataType = "geojson" =>
         /\ addSourceCalls'[id] # addSourceCalls[id] =>
              sources[id] = "absent" /\ addSourceCalls'[id] = addSourceCalls[id] + 1
         /\ addLayerCalls'[id] # addLayerCalls[id] =>
              mapLayers[id] = "absent" /\ addLayerCalls'[id] = addLayerCalls[id] + 1
         /\ addSourceCalls'[id] <= 1 /\ addLayerCalls'[id] <= 1]_vars

\* the callbacks of two in-flight calls have both run for one geojson spec,
\* and the second found the id registered by the first
C3_Witness ==
  \E id \in DOMAIN layers :
    /\ layers[id].dataType = "geojson"
    /\ Cardinality({f \in FetchesOf(id) : f.state = "fulfilled"}) = 2
    /\ addSourceCalls[id] = 1 /\ addLayerCalls[id] = 1

\* every binding of spec id has its handler attached once per call made
HandlersAttached(id) ==
  \A call \in 1..Len(calls) :
    \A b \in 1..Len(layers[id].mouseEvent) :
      \E k \in 1..Len(listeners) :
        listeners[k] = [type |-> layers[id].mouseEvent[b], id |-> id,
                        kind |-> "show", popup |-> <<call, id>>, binding |-> b]

\* C4: when a fetch of one geojson spec has failed, every other spec of the
\* group, before or after it, has its handlers attached and is registered (a
\* geojson sibling once a fetch of its own is fulfilled), and the failed spec
\* stays unregistered as long as no fetch of its own is fulfilled.
C4_FetchFailureIsolated ==
  \A f \in fetches :
    f.state = "rejected" =>
      /\ \A id \in DOMAIN layers \ {f.id} :
           /\ HandlersAttached(id)
           /\ (layers[id].dataType # "geojson"
                \/ \E g \in FetchesOf(id) : g.state = "fulfilled") => Registered(id)
      /\ (\A g \in FetchesOf(f.id) : g.state # "fulfilled") =>
           sources[f.id] = "absent" /\ mapLayers[f.id] = "absent"

\* the fetch of the first spec failed, the sibling after it is registered
\* with its click handler attached
C4_Witness ==
  /\ Len(layers) = 2
  /\ \E f \in FetchesOf(1) : f.state = "rejected"
  /\ sources[1] = "absent" /\ mapLayers[1] = "absent"
  /\ layers[2].dataType # "geojson"
  /\ Registered(2) /\ HandlersAttached(2) /\ Len(listeners) >= 2

\* C5: once loadMapLayers has returned, every raster, image and vector spec
\* is registered whatever fetches are pending, and a geojson spec has a
\* source or a layer only if a fetch of its own has been fulfilled.
C5_FireAndContinue ==
  \A id \in DOMAIN layers :
    IF layers[id].dataType = "geojson"
      THEN (sources[id] # "absent" \/ mapLayers[id] # "absent") =>
             \E f \in FetchesOf(id) : f.state = "fulfilled"
      ELSE Len(calls) >= 1 => Registered(id)

\* a geojson fetch is still pending while the vector sibling is registered
C5_Witness ==
  /\ Len(layers) = 2
  /\ layers[1].dataType = "geojson" /\ layers[2].dataType = "vector"
  /\ \E f \in FetchesOf(1) : f.state = "pending"
  /\ sources[1] = "absent" /\ mapLayers[1] = "absent"
  /\ Registered(2)

\* the mouseleave handlers that remove a popup, attached for layer id
RemoveHandlers(id) ==
  {k \in 1..Len(listeners) :
     /\ listeners[k].id = id
     /\ listeners[k].type = "mouseleave"
     /\ listeners[k].kind = "remove"}

\* C7: after one loadMapLayers call and any number of mousemove events, at
\* most one popup-removing mouseleave handler is attached per layer id.
C7_OneMouseleavePerRegistration ==
  Len(calls) <= 1 => \A id \in Ids : Cardinality(RemoveHandlers(id)) <= 1

(***************************************************************************)
(* Properties of the tree transformer, checked under SpecTransform.        *)
(***************************************************************************)
\* item[key], or the empty string when the item has no such key
FieldOrEmpty(item, key) == IF key \in DOMAIN item THEN item[key] ELSE ""

\* the precedence as C8 words it: str when the item has it; else the feature's
\* property when the item names one and the first feature has it; else `else`
\* when present; else the empty string
ClaimedResolution(item, e) ==
  IF "str" \in DOMAIN item THEN item.str
  ELSE IF /\ "property" \in DOMAIN item
          /\ FeatureProperties(e)
          /\ item.property \in DOMAIN e.features[1].properties
    THEN e.features[1].properties[item.property]
    ELSE FieldOrEmpty(item, "else")

\* C8: the content resolved for a single content item is its str when it has
\* one, else the value of its property on the event's first feature when that
\* feature has the property, else its `else`, else the empty string.
C8_ResolutionPrecedence ==
  (/\ result.status = "returned"
   /\ tag.isArray /\ Len(tag.items) = 1
   /\ tag.tagName = "a") =>
    result.node.content = ClaimedResolution(tag.items[1], event)

\* C9: a tag with more than one item becomes a composite node with the tag,
\* class and optional href prop of the first item and one child per
\* subsequent item (n items, n-1 children), each non-nested item a span whose
\* content is its resolved value.
C9_CompositeShape ==
  (result.status = "returned" /\ tag.isArray /\ Len(tag.items) > 1) =>
    LET n == result.node
    IN /\ n.tag = tag.tagName
       /\ n.class = ClassOf(tag.items[1])
       /\ n.props = HrefProps(tag.items[1])
       /\ Len(n.children) = Len(tag.items) - 1
       /\ \A k \in 2..Len(tag.items) :
            /\ n.children[k - 1].tag = "span"
            /\ n.children[k - 1].content = ResolveContent(tag.items[k], event)

\* the leaf C10 describes: the tag, empty content, no children, and the props
\* src and alt of the first item
IsImageLeaf(n, t, first) ==
  /\ n.tag = t.tagName
  /\ "content" \in DOMAIN n /\ n.content = ""
  /\ ("children" \in DOMAIN n => Len(n.children) = 0)
  /\ n.props = <<[src |-> FieldOrEmpty(first, "src")],
                 [alt |-> FieldOrEmpty(first, "alt")]>>

\* C10 as stated: an img or iframe tag yields that leaf for every item
\* sequence that has a first item.
C10_LeafForEverySequence ==
  (/\ result.status # "pending"
   /\ tag.isArray
   /\ tag.tagName \in {"img", "iframe"}
   /\ Len(tag.items) >= 1) =>
    /\ result.status = "returned"
    /\ IsImageLeaf(result.node, tag, tag.items[1])

\* C10, amended: an img or iframe tag whose item sequence has exactly one
\* entry yields the leaf with that tag, empty content, no children, and props
\* src and alt taken from that item (the empty string for a missing field).
C10_LeafForSingleItem ==
  (/\ result.status # "pending"
   /\ tag.isArray
   /\ tag.tagName \in {"img", "iframe"}
   /\ Len(tag.items) = 1) =>
    /\ result.status = "returned"
    /\ IsImageLeaf(result.node, tag, tag.items[1])

\* an img with the one item {src: "/a.png", alt: "A", ...} has been transformed
C10_Witness ==
  /\ result.status = "returned"
  /\ tag.isArray /\ tag.tagName = "img" /\ Len(tag.items) = 1
  /\ "src" \in DOMAIN tag.items[1]
  /\ result.node.props = <<[src |-> "/a.png"], [alt |-> "A"]>>

(***************************************************************************)
(* Properties of the renderer and of the legend parser, checked under      *)
(* SpecRender.                                                             *)
(***************************************************************************)
\* the element names a normalized tree can carry
AllTags == TagNames \cup {"span", "div", "h3", "ul", "li"}

OpensWith(piece) == {t \in AllTags : piece = "<" \o t}

ClosesWith(piece) == {t \in AllTags : piece = "</" \o t \o ">"}

RECURSIVE Outline(_, _, _)
\* the rendered pieces read back from piece k on: which elements open and
\* close and which text stands between them, in order of appearance (the
\* piece after "<tag" is the rest of that opening tag)
Outline(out, k, acc) ==
  IF k > Len(out) THEN acc
  ELSE IF OpensWith(out[k]) # {}
    THEN Outline(out, k + 2,
                 Append(acc, <<"open", CHOOSE t \in OpensWith(out[k]) : TRUE>>))
  ELSE IF ClosesWith(out[k]) # {}
    THEN Outline(out, k + 1,
                 Append(acc, <<"close", CHOOSE t \in ClosesWith(out[k]) : TRUE>>))
  ELSE Outline(out, k + 1, Append(acc, <<"text", out[k]>>))

RECURSIVE TreeOutline(_)
\* the same reading of a tree: the node opens, its non-empty content, each
\* child in order, the node closes
TreeOutline(n) ==
  LET children == IF "children" \in DOMAIN n THEN n.children ELSE <<>>
      content == IF "content" \in DOMAIN n /\ n.content # ""
                   THEN <<<<"text", n.content>>>> ELSE <<>>
  IN <<<<"open", n.tag>>>> \o content
     \o Flatten([k \in 1..Len(children) |-> TreeOutline(children[k])])
     \o <<<<"close", n.tag>>>>

RendersWhole(n, out) ==
  /\ Len(out) >= 2
  /\ out[1] = "<" \o n.tag
  /\ out[Len(out)] = "</" \o n.tag \o ">"
  /\ Outline(out, 1, <<>>) = TreeOutline(n)

\* C11: for every tree returned by transformMixedTagToHTMLObject or by
\* parseLegend, the string renderHTMLObject returns opens with "<tag", closes
\* with "</tag>" and holds between them the node's non-empty content followed
\* by the rendering of every child in order: read back, the string names the
\* same elements and texts as the tree, none dropped.
C11_RenderKeepsEverything ==
  html.status = "returned" =>
    /\ result.status = "returned" => RendersWhole(result.node, html.out)
    /\ parsed.status = "returned" =>
         Len(parsed.nodes) = 1 /\ RendersWhole(parsed.nodes[1], html.out)

\* a composite of two children, both with content, has been rendered
C11_Witness ==
  /\ html.status = "returned"
  /\ result.status = "returned"
  /\ "children" \in DOMAIN result.node
  /\ Len(result.node.children) = 2
  /\ \A k \in 1..2 : result.node.children[k].content # ""

\* C12: parseLegend maps a legend {title?, items} to a div of class
\* ["menu-item"] whose children are, in order, an h3 whose content is the
\* title (present only when the title is given) and a ul with exactly one li
\* per item, in item order, each li holding two spans: a swatch whose style
\* sets background-color to the item's color, then a label whose content is
\* the item's label.
C12_LegendShape ==
  parsed.status = "returned" =>
    LET legend == shorthand.data.legend
        items == legend.items.elems
        n == parsed.nodes[1]
        ul == n.children[Len(n.children)]
    IN /\ n.tag = "div" /\ n.class = <<"menu-item">>
       /\ Len(n.children) \in {1, 2}
       /\ Len(n.children) = 2 =>
            /\ "title" \in DOMAIN legend
            /\ n.children[1].tag = "h3"
            /\ n.children[1].content = legend.title
       /\ ("title" \in DOMAIN legend /\ legend.title # "") => Len(n.children) = 2
       /\ ul.tag = "ul"
       /\ Len(ul.children) = Len(items)
       /\ \A k \in 1..Len(items) :
            LET li == ul.children[k]
            IN /\ li.tag = "li"
               /\ Len(li.children) = 2
               /\ li.children[1].tag = "span"
               /\ li.children[1].style = <<<<"background-color", items[k].color>>>>
               /\ li.children[2].tag = "span"
               /\ li.children[2].content = items[k].label

\* a titled legend of two entries that differ in color and label was parsed
C12_Witness ==
  /\ parsed.status = "returned"
  /\ Len(parsed.nodes[1].children) = 2
  /\ Len(shorthand.data.legend.items.elems) = 2
  /\ shorthand.data.legend.items.elems[1].color # shorthand.data.legend.items.elems[2].color
  /\ shorthand.data.legend.items.elems[1].label # shorthand.data.legend.items.elems[2].label

\* the shorthand has a legend whose items is an array
WellFormedLegend(data) ==
  /\ "legend" \in DOMAIN data
  /\ "items" \in DOMAIN data.legend
  /\ data.legend.items.isArray

\* C13: parseShorthand throws for every input that has no legend key, and
\* parseLegend (reached through it) throws for every legend whose items is
\* missing or is not a sequence; for every well-formed legend neither throws.
C13_MalformedThrows ==
  (shorthand.given /\ parsed.status # "pending") =>
    /\ "legend" \notin DOMAIN shorthand.data => parsed.status = "threw"
    /\ ("legend" \in DOMAIN shorthand.data /\ ~WellFormedLegend(shorthand.data))
         => parsed.status = "threw"
    /\ WellFormedLegend(shorthand.data) => parsed.status = "returned"

\* a titled legend whose items is not an array was refused
C13_Witness ==
  /\ shorthand.given
  /\ "legend" \in DOMAIN shorthand.data
  /\ "items" \in DOMAIN shorthand.data.legend
  /\ ~shorthand.data.legend.items.isArray
  /\ parsed = [status |-> "threw",
               error |-> "Invalid legend format: must include 'items'."]

(***************************************************************************)
(* Properties of the toggle buttons and of registration, checked under     *)
(* Spec.                                                                   *)
(***************************************************************************)
\* C14: each click on a toggle control whose layer is registered flips that
\* layer's visibility (visible to none, anything else to visible) and leaves
\* the clicked control 'active' exactly when the new visibility is visible;
\* a second click on the same control would restore both the visibility and
\* the control's class; and the click changes no other layer's visibility.
C14_ClickFlipsAndRestores ==
  [][\A k \in 1..Len(menuChildren) :
       LET id == menuChildren[k].id
       IN (ToggleClick(k) /\ mapLayers[id] # "absent") =>
            /\ mapLayers'[id] = IF mapLayers[id] = "visible" THEN "none" ELSE "visible"
            /\ menuChildren'[k].className = "active" <=> mapLayers'[id] = "visible"
            /\ \A other \in Ids \ {id} : mapLayers'[other] = mapLayers[other]
            /\ LayersAfterClick(mapLayers', id) = mapLayers
            /\ ClassNameAfterClick(mapLayers', id) = menuChildren[k].className]_vars

\* call c registers layer id in this step: it is the call being made, or the
\* call whose fetch for the id is fulfilled
RegisteredBy(c, id) ==
  \/ calls' # calls /\ c = Len(calls')
  \/ /\ calls' = calls
     /\ [call |-> c, id |-> id, state |-> "pending"] \in fetches
     /\ [call |-> c, id |-> id, state |-> "fulfilled"] \in fetches'

\* C15: when a layer of any data-type is first registered, its initial
\* visibility is 'visible' if the registering call's defaultVisible is true or
\* the spec's visible is true, and 'none' otherwise; a call that omits
\* defaultVisible registers as one that passes false.
C15_InitialVisibility ==
  [][\A id \in DOMAIN layers :
       (mapLayers[id] = "absent" /\ mapLayers'[id] # "absent") =>
         /\ \E c \in 1..Len(calls') :
              /\ RegisteredBy(c, id)
              /\ mapLayers'[id] =
                   IF calls'[c] \/ layers[id].visible THEN "visible" ELSE "none"
         /\ LoadMapLayers(DefaultVisibility) =>
              mapLayers'[id] = IF layers[id].visible THEN "visible" ELSE "none"]_vars

\* a geojson spec with visible false and no button, registered visible by a
\* call made with defaultVisible true
C15_Witness ==
  /\ Len(layers) = 1
  /\ layers[1].dataType = "geojson" /\ ~layers[1].visible /\ ~layers[1].toggle
  /\ calls = <<TRUE>>
  /\ mapLayers[1] = "visible"

\* the ids of the specs with toggle = true, in the group's order
ToggledIds == SelectSeq([i \in 1..Len(layers) |-> i], LAMBDA i : layers[i].toggle)

\* C18: one loadMapLayers call creates exactly one toggle control for each
\* spec with toggle = true and none for the others, labelled with the spec's
\* label, or its id when the label is absent, and marked active exactly when
\* the spec's visible is true; the controls are appended to the menu, after
\* those already there, in the group's spec order; when the menu container
\* does not exist nothing is appended; and with or without it the call
\* registers every spec that is registered within the call.
C18_ToggleControls ==
  [][calls' # calls =>
       LET new == SubSeq(menuChildren', Len(menuChildren) + 1, Len(menuChildren'))
       IN /\ Len(menuChildren') >= Len(menuChildren)
          /\ SubSeq(menuChildren', 1, Len(menuChildren)) = menuChildren
          /\ menu =>
               /\ Len(new) = Len(ToggledIds)
               /\ \A j \in 1..Len(ToggledIds) :
                    LET id == ToggledIds[j]
                    IN /\ new[j].id = id
                       /\ new[j].textContent =
                            IF "label" \in DOMAIN layers[id]
                              THEN layers[id].label ELSE ToString(id)
                       /\ new[j].className = "active" <=> layers[id].visible
          /\ ~menu => new = <<>>
          /\ \A id \in DOMAIN layers :
               layers[id].dataType # "geojson" =>
                 sources'[id] = layers[id].dataType /\ mapLayers'[id] # "absent"]_vars

\* one call on a group of two specs with toggle = true, the first labelled
\* and hidden, the second unlabelled and visible: two buttons, in that order
C18_Witness ==
  /\ Len(layers) = 2 /\ Len(calls) = 1
  /\ layers[1].toggle /\ layers[2].toggle
  /\ Len(menuChildren) = 2
  /\ menuChildren[1] = [id |-> 1, className |-> "", textContent |-> "Roads"]
  /\ menuChildren[2] = [id |-> 2, className |-> "active", textContent |-> "2"]

\* the value the claim gives a field: the one supplied, else the default
SuppliedOr(layer, key, default) ==
  IF key \in DOMAIN layer THEN layer[key] ELSE default

\* C19: a registered source and layer carry, for every optional field, the
\* value the spec supplies, unchanged, and the documented default when the
\* spec has none: raster tileSize 256, vector minzoom 0 and maxzoom 22, vector
\* source-layer the spec's id, image coordinates the empty list, and paint the
\* empty object for every variant.
C19_OptionDefaults ==
  \A id \in DOMAIN layers :
    LET layer == layers[id]
    IN /\ sources[id] # "absent" =>
            /\ layer.dataType = "raster" =>
                 sourceOptions[id].tileSize = SuppliedOr(layer, "tileSize", 256)
            /\ layer.dataType = "vector" =>
                 /\ sourceOptions[id].minzoom = SuppliedOr(layer, "minzoom", 0)
                 /\ sourceOptions[id].maxzoom = SuppliedOr(layer, "maxzoom", 22)
            /\ layer.dataType = "image" =>
                 sourceOptions[id].coordinates = SuppliedOr(layer, "coordinates", <<>>)
       /\ mapLayers[id] # "absent" =>
            /\ layerOptions[id].paint = SuppliedOr(layer, "paint", [k \in {} |-> ""])
            /\ layer.dataType = "vector" =>
                 layerOptions[id]["source-layer"] =
                   SuppliedOr(layer, "source-layer", ToString(id))

\* C20: a loadMapLayers call, and the fetch callbacks it leads to, leave the
\* layout visibility and the options of every layer that is already
\* registered as they are, whatever defaultVisible the call passes and
\* whatever the buttons did before; a source, once registered, never changes;
\* and a layer the call itself registers gets the call's initial visibility.
C20_RepeatedCallKeepsLayers ==
  [][\A id \in DOMAIN layers :
       /\ sources[id] # "absent" =>
            sources'[id] = sources[id] /\ sourceOptions'[id] = sourceOptions[id]
       /\ (mapLayers[id] # "absent" /\ (calls' # calls \/ fetches' # fetches)) =>
            mapLayers'[id] = mapLayers[id] /\ layerOptions'[id] = layerOptions[id]
       /\ (mapLayers[id] = "absent" /\ mapLayers'[id] # "absent" /\ calls' # calls) =>
            mapLayers'[id] =
              IF calls'[Len(calls')] \/ layers[id].visible THEN "visible" ELSE "none"]_vars

\* a raster spec registered visible by a first call with defaultVisible true
\* and hidden by a click on its button is still hidden after a second call,
\* made with defaultVisible true again
C20_Witness ==
  /\ Len(layers) = 1
  /\ layers[1].dataType = "raster" /\ layers[1].toggle /\ ~layers[1].visible
  /\ calls = <<TRUE, TRUE>>
  /\ Len(menuChildren) = 2
  /\ mapLayers[1] = "none"
  /\ addLayerCalls[1] = 1

\* the popups of layer id that are displayed
PopupsOf(ps, id) == {p \in ps : p.popup[2] = id}

\* the event types spec id has a binding for
BoundTypes(id) == {layers[id].mouseEvent[b] : b \in 1..Len(layers[id].mouseEvent)}

\* a mouseleave event on layer id has a handler to run
LeaveHandled(id) ==
  /\ mapLayers[id] # "absent"
  /\ \E k \in 1..Len(listeners) :
       listeners[k].type = "mouseleave" /\ listeners[k].id = id

ControlsOf(id) == {k \in 1..Len(menuChildren) : menuChildren[k].id = id}

\* the handlers attached for binding b of spec id, on its type and layer id
BindingHandlers(id, b) ==
  {k \in 1..Len(listeners) :
     /\ listeners[k].kind = "show"
     /\ listeners[k].id = id
     /\ listeners[k].binding = b
     /\ listeners[k].type = layers[id].mouseEvent[b]}

\* the handlers one fire of the type on layer id runs
HandlersRun(type, id) ==
  {k \in 1..Len(listeners) : listeners[k].type = type /\ listeners[k].id = id}

\* C21: after k loadMapLayers calls with the group, whatever the data-type
\* of a spec and whether or not its layer is registered, the menu (when the
\* page has one) holds k buttons for every spec with a toggle, every binding
\* has k handlers attached on its type and layer id, and one fire of that
\* type on that layer runs k handlers of the binding.
C21_UnguardedPerCall ==
  \A id \in DOMAIN layers :
    /\ (menu /\ layers[id].toggle) => Cardinality(ControlsOf(id)) = Len(calls)
    /\ \A b \in 1..Len(layers[id].mouseEvent) :
         /\ Cardinality(BindingHandlers(id, b)) = Len(calls)
         /\ Cardinality(HandlersRun(layers[id].mouseEvent[b], id)
                        \cap BindingHandlers(id, b)) = Len(calls)

\* two calls were made for a geojson spec with a toggle and a click binding
\* whose fetches are pending: its layer is not registered, and it has two
\* buttons and two click handlers
C21_Witness ==
  /\ menu
  /\ Len(layers) = 1
  /\ layers[1].dataType = "geojson" /\ layers[1].toggle
  /\ layers[1].mouseEvent = <<"click">>
  /\ Len(calls) = 2
  /\ mapLayers[1] = "absent" /\ sources[1] = "absent"
  /\ Cardinality(ControlsOf(1)) = 2
  /\ Cardinality(HandlersRun("click", 1)) = 2

(***************************************************************************)
(* Properties of the popups, checked under SpecPopup.                      *)
(***************************************************************************)
RECURSIVE ClaimedPopupHTML(_, _, _)
\* the concatenation, from entry k on, of render(transform(node, e)) for the
\* entries that are tag maps, the others contributing the empty string
ClaimedPopupHTML(content, k, e) ==
  IF k > Len(content) THEN <<>>
  ELSE (IF "tagName" \in DOMAIN content[k]
          THEN RenderHTMLObject(TransformMixedTagToHTMLObject(content[k], e))
          ELSE <<>>)
       \o ClaimedPopupHTML(content, k + 1, e)

\* C16: when a bound event fires on a layer, every handler of the binding
\* displays its popup at the event's coordinates, with HTML equal to the
\* concatenation, in binding order, of render(transform(node, event)) for
\* each content node (an entry that is not a tag map contributes the empty
\* string): in every state, and for every event the map can fire on a
\* registered layer, the handlers leave that popup displayed when they have
\* run to completion.
C16_PopupShowsContent ==
  \A type \in EventTypes, id \in DOMAIN layers, e \in MouseEvents :
    mapLayers[id] # "absent" =>
      \A k \in 1..Len(listeners) :
        (listeners[k].type = type /\ listeners[k].id = id
         /\ listeners[k].kind = "show") =>
          [popup |-> listeners[k].popup,
           lngLat |-> e.lngLat,
           html |-> ClaimedPopupHTML(
                      ContentOf(layers[id], listeners[k].binding), 1, e)]
            \in PopupsAfterEvent(popups, listeners, 1, type, id, e)

(***************************************************************************)
(* Properties of the popup two bindings share, checked under               *)
(* SpecSharedPopup.                                                        *)
(***************************************************************************)
\* the popups displayed that the handlers of call c made for spec id
CallPopups(ps, c, id) == {p \in ps : p.popup = <<c, id>>}

\* the event is handled for call c: a handler the call attached for the type
\* on layer id, or one that such a handler attached, runs to completion
HandledBy(c, id, type, e) ==
  \E k \in 1..Len(listeners) :
    /\ listeners[k].type = type
    /\ listeners[k].id = id
    /\ listeners[k].popup = <<c, id>>
    /\ listeners[k].kind = "show" =>
         ~HandlerThrows(ContentOf(layers[id], listeners[k].binding), e)

\* C22: for every spec and call, at most one popup of the call is displayed,
\* now and after any event the map can fire on the spec's layer; after an
\* event that a handler of the call handles, a popup of the call that is
\* displayed is at that event's coordinates and shows the content of the
\* spec's binding of that event's type, evaluated with that event; and an
\* event that no handler of the call handles leaves the call's popup as it
\* was, displayed or not.
C22_SharedPopup ==
  \A id \in DOMAIN layers, c \in 1..Len(calls) :
    /\ Cardinality(CallPopups(popups, c, id)) <= 1
    /\ \A type \in EventTypes, e \in MouseEvents :
         mapLayers[id] # "absent" =>
           LET after == CallPopups(
                          PopupsAfterEvent(popups, listeners, 1, type, id, e), c, id)
           IN /\ Cardinality(after) <= 1
              /\ IF HandledBy(c, id, type, e)
                   THEN \A p \in after :
                          /\ p.lngLat = e.lngLat
                          /\ \E b \in 1..Len(layers[id].mouseEvent) :
                               /\ layers[id].mouseEvent[b] = type
                               /\ p.html = ClaimedPopupHTML(
                                             ContentOf(layers[id], b), 1, e)
                   ELSE after = CallPopups(popups, c, id)

\* a spec with a click and a mousemove binding of different content: a
\* mousemove event has been handled (its mouseleave handler is attached) and
\* then a click on a feature elsewhere, and the one popup of the call shows
\* the click binding's content at the click's coordinates
C22_Witness ==
  /\ layers[1].mouseEvent = <<"click", "mousemove">>
  /\ layers[1].content[1] # layers[1].content[2]
  /\ Len(calls) = 1
  /\ \E k \in RemoveHandlers(1) : listeners[k].popup = <<1, 1>>
  /\ \E e \in MouseEvents :
       /\ e.lngLat = <<10, 20>> /\ Len(e.features) = 1
       /\ PopupContent(layers[1].content[1], e) # PopupContent(layers[1].content[2], e)
       /\ popups = {[popup |-> <<1, 1>>, lngLat |-> e.lngLat,
                     html |-> PopupContent(layers[1].content[1], e)]}

====
